---- MODULE Spec2Model ----
(***************************************************************************)
(* A model of YieldCurveAnalyzer (src/yield_curve_analyzer.py).            *)
(*                                                                         *)
(* Rates and spreads are integers in hundredths of a percent (4.5 % is     *)
(* 450).  Every downloaded rate is a multiple of 10, so 0.7 * (5Y - 3M) is *)
(* the exact integer 7 * (5Y - 3M) \div 10; binary floating-point rounding *)
(* is not modelled.  A timestamp is a day number.                          *)
(*                                                                         *)
(* A pandas DataFrame is a record [kind, index, columns, cell]: index is   *)
(* the sequence of row timestamps, columns the sequence of column labels   *)
(* in frame order, cell[label] the column's values by row position.        *)
(***************************************************************************)
EXTENDS Integers, Sequences, FiniteSets, TLC

VARIABLES
    data,            \* self.data: None or a DataFrame
    fed_funds_rate,  \* self.fed_funds_rate
    successful_fetches, \* the maturities the last fetch_treasury_data got a series for
    processed_data,  \* the series self.data was built from at line 109, <<>> if from none
    source,          \* which path built self.data: "none", "fetched", "sample", "given"
    op,              \* the method that ran last
    ret,             \* what it returned: "None", "True" or "False"
    err,             \* the exception it let escape, "none" when it returned
    out              \* what it printed, as a record

vars == <<data, fed_funds_rate, successful_fetches, processed_data, source, op, ret, err, out>>

\* ------------------------------------------------------------- bounds
\* Timestamps of the download window are 1..MaxT.
MaxT == 3
\* Longest spread series handed directly to the scan and the statistics.
MaxLen == 4
\* Spread values of those series are -MaxAbsSpread..MaxAbsSpread, times 10.
MaxAbsSpread == 2

\* ------------------------------------------------------------- values
None == [kind |-> "None"]
\* float('nan'): an integer no rate or spread of the model can take.
NaN == 0 - 999999999

\* The keys of tickers, in insertion order.
Maturities == <<"2Y", "5Y", "10Y", "30Y">>

Range(s) == {s[i] : i \in 1..Len(s)}

Dates == 1..MaxT

\* What the market-data provider knows: the closing rate of maturity m on
\* day t.  The short rates drift up; the long rates dip on day 2 and recover,
\* so that the curve inverts and, from day 4 on, steepens again.  A download
\* returns the rates of a subset of the days.
Abs(x) == IF x < 0 THEN 0 - x ELSE x

Market(m, t) ==
    CASE m = "2Y" -> 500 + 10 * t
      [] m = "5Y" -> 450 + 10 * t
      [] m = "10Y" -> 410 + 60 * Abs(t - 2)
      [] m = "30Y" -> 430 + 40 * Abs(t - 2)

\* ------------------------------------------------------------- pandas
RECURSIVE SortedSeq(_)
SortedSeq(S) ==
    IF S = {} THEN <<>>
    ELSE LET m == CHOOSE x \in S : \A y \in S : x <= y
         IN  <<m>> \o SortedSeq(S \ {m})

HasColumn(df, label) == label \in Range(df.columns)

\* pd.DataFrame(dict of Series): the row index is the sorted union of the
\* series' indexes, one column per key in insertion order, NaN where a
\* series has no observation at the row's timestamp.
DataFrameOf(series) ==
    LET idx == SortedSeq(UNION {DOMAIN series[m] : m \in DOMAIN series})
    IN  [kind |-> "DataFrame",
         index |-> idx,
         columns |-> SelectSeq(Maturities, LAMBDA m : m \in DOMAIN series),
         cell |-> [m \in DOMAIN series |->
                     [i \in 1..Len(idx) |->
                        IF idx[i] \in DOMAIN series[m] THEN series[m][idx[i]] ELSE NaN]]]

\* df.iloc[rows]: the rows at the given positions, in that order.
TakeRows(df, rows) ==
    [kind |-> "DataFrame",
     index |-> [k \in 1..Len(rows) |-> df.index[rows[k]]],
     columns |-> df.columns,
     cell |-> [c \in DOMAIN df.cell |-> [k \in 1..Len(rows) |-> df.cell[c][rows[k]]]]]

\* df.dropna(how='all'): drop the rows whose every cell is NaN.
DropNaAll(df) ==
    TakeRows(df, SortedSeq({i \in 1..Len(df.index) :
                              \E c \in DOMAIN df.cell : df.cell[c][i] # NaN}))

\* Series.fillna(method='ffill'): a NaN takes the last known value before it.
FFill(s) ==
    [i \in 1..Len(s) |->
        IF s[i] # NaN THEN s[i]
        ELSE LET known == {j \in 1..(i - 1) : s[j] # NaN}
             IN  IF known = {} THEN NaN
                 ELSE s[CHOOSE j \in known : \A k \in known : k <= j]]

\* Series.fillna(method='bfill'): a NaN takes the first known value after it.
BFill(s) ==
    [i \in 1..Len(s) |->
        IF s[i] # NaN THEN s[i]
        ELSE LET known == {j \in (i + 1)..Len(s) : s[j] # NaN}
             IN  IF known = {} THEN NaN
                 ELSE s[CHOOSE j \in known : \A k \in known : j <= k]]

\* A fill that forgets the backward pass.
ForwardFillOnly(df) ==
    [df EXCEPT !.cell = [c \in DOMAIN df.cell |-> FFill(df.cell[c])]]

\* df.fillna(method='ffill').fillna(method='bfill'), column by column.
FillNa(df) ==
    [df EXCEPT !.cell = [c \in DOMAIN df.cell |-> BFill(FFill(df.cell[c]))]]

\* df[label] = values: replaces the column in place, or appends a new one.
SetColumn(df, label, values) ==
    [kind |-> "DataFrame",
     index |-> df.index,
     columns |-> IF HasColumn(df, label) THEN df.columns ELSE Append(df.columns, label),
     cell |-> [c \in DOMAIN df.cell \cup {label} |->
                 IF c = label THEN values ELSE df.cell[c]]]

\* Float arithmetic: NaN propagates.
Sub(a, b) == IF a = NaN \/ b = NaN THEN NaN ELSE a - b
Add(a, b) == IF a = NaN \/ b = NaN THEN NaN ELSE a + b
\* 0.7 * a
Times07(a) == IF a = NaN THEN NaN ELSE (7 * a) \div 10

\* A difference taken the wrong way round.
ColSubReversed(x, y) == [i \in 1..Len(x) |-> Sub(y[i], x[i])]

\* Series - Series on a shared index, row by row.
ColSub(x, y) == [i \in 1..Len(x) |-> Sub(x[i], y[i])]

\* ------------------------------------------------------------- fetch_treasury_data
\* Lines 151-172: the 2Y estimate.  The column labelled '2Y' holds the
\* 3-month bill rate (^IRX).
Estimate2Y(df) ==
    IF HasColumn(df, "2Y")
    THEN IF HasColumn(df, "5Y") /\ HasColumn(df, "10Y")
         THEN LET three_month == df.cell["2Y"]
                  five_year == df.cell["5Y"]
              IN  SetColumn(df, "2Y_estimated",
                      [i \in 1..Len(df.index) |->
                          Add(three_month[i], Times07(Sub(five_year[i], three_month[i])))])
         ELSE SetColumn(df, "2Y_estimated", df.cell["2Y"])
    ELSE IF HasColumn(df, "5Y")
         THEN SetColumn(df, "2Y_estimated",
                  [i \in 1..Len(df.index) |-> Sub(df.cell["5Y"][i], 50)])
         ELSE df

\* Lines 141-149: drop the all-NaN rows, then forward-fill and backward-fill.
CleanAndFill(df) == FillNa(DropNaAll(df))

\* Lines 97-172: the try block, from the fetched series to the final frame.
ProcessFetched(series) == Estimate2Y(CleanAndFill(DataFrameOf(series)))

IsEmpty(df) == Len(df.index) = 0 \/ Len(df.columns) = 0

\* ------------------------------------------------------------- create_sample_data
base_10y == 450

\* np.random.normal(0, sigma) after np.random.seed(42): the k-th draw of a
\* fixed stream.  The generator itself is not modelled; this stands in for
\* its stream with a fixed sequence of draws within two sigma.
NormalDraw(k, sigma) == sigma * (((3 * k) % 5) - 2)

Clamp(lo, hi, v) == IF v < lo THEN lo ELSE IF v > hi THEN hi ELSE v

\* current_10y after row i: the clamped random walk of lines 224-230.  Each
\* row makes four draws, the walk's step first.
RECURSIVE Current10y(_)
Current10y(i) ==
    IF i = 0 THEN base_10y
    ELSE Clamp(100, 700, Current10y(i - 1) + NormalDraw(4 * (i - 1) + 1, 5))

\* The sample frame: one row per business day of the past year (MaxT rows
\* here), columns in the order of the dict literal of lines 244-249.  Nothing
\* in it raises, so the except clause of lines 255-257 is never entered.
SampleFrame ==
    LET y_10 == [i \in 1..MaxT |-> Current10y(i)]
        y_5 == [i \in 1..MaxT |-> y_10[i] - 30 + NormalDraw(4 * (i - 1) + 2, 10)]
        y_2 == [i \in 1..MaxT |-> y_5[i] - 40 + NormalDraw(4 * (i - 1) + 3, 10)]
        y_30 == [i \in 1..MaxT |-> y_10[i] + 20 + NormalDraw(4 * (i - 1) + 4, 10)]
    IN  [kind |-> "DataFrame",
         index |-> [i \in 1..MaxT |-> i],
         columns |-> <<"2Y_estimated", "5Y", "10Y", "30Y">>,
         cell |-> [c \in {"2Y_estimated", "5Y", "10Y", "30Y"} |->
                     CASE c = "2Y_estimated" -> y_2
                       [] c = "5Y" -> y_5
                       [] c = "10Y" -> y_10
                       [] c = "30Y" -> y_30]]

\* ------------------------------------------------------------- calculate_spreads
\* A 2s10s spread computed in place, 10Y -= 2Y_estimated, before it is stored.
WithSpreadsInPlace(df) ==
    LET d1 == IF HasColumn(df, "10Y") /\ HasColumn(df, "2Y_estimated")
              THEN LET diff == ColSub(df.cell["10Y"], df.cell["2Y_estimated"])
                   IN  SetColumn(SetColumn(df, "10Y", diff), "2s10s_spread", diff)
              ELSE df
    IN  IF HasColumn(d1, "30Y") /\ HasColumn(d1, "5Y")
        THEN SetColumn(d1, "5s30s_spread", ColSub(d1.cell["30Y"], d1.cell["5Y"]))
        ELSE d1

\* Lines 295-301.
WithSpreads(df) ==
    LET d1 == IF HasColumn(df, "10Y") /\ HasColumn(df, "2Y_estimated")
              THEN SetColumn(df, "2s10s_spread",
                       ColSub(df.cell["10Y"], df.cell["2Y_estimated"]))
              ELSE df
    IN  IF HasColumn(d1, "30Y") /\ HasColumn(d1, "5Y")
        THEN SetColumn(d1, "5s30s_spread", ColSub(d1.cell["30Y"], d1.cell["5Y"]))
        ELSE d1

\* ------------------------------------------------------------- analyze_inversions
\* A scan that takes a spread of exactly 0 for inverted.
IsInvertedOrZero(v) == v # NaN /\ v <= 0

\* Line 376: spread < 0; a comparison with NaN is False.
IsInverted(v) == v # NaN /\ v < 0

\* Lines 379-390: the loop, from row i on.  start_date is 0 while it is None.
RECURSIVE ScanFrom(_, _, _, _, _, _)
ScanFrom(index, inversions, i, in_inversion, start_date, inversion_periods) ==
    IF i > Len(index)
    THEN [in_inversion |-> in_inversion, start_date |-> start_date,
          inversion_periods |-> inversion_periods]
    ELSE IF inversions[i] /\ ~in_inversion
         THEN ScanFrom(index, inversions, i + 1, TRUE, index[i], inversion_periods)
         ELSE IF ~inversions[i] /\ in_inversion
              THEN ScanFrom(index, inversions, i + 1, FALSE, start_date,
                            Append(inversion_periods, <<start_date, index[i]>>))
              ELSE ScanFrom(index, inversions, i + 1, in_inversion, start_date,
                            inversion_periods)

\* Lines 392-394: the interval still open after the loop ends at the last row.
CloseOpenPeriod(index, r) ==
    IF r.in_inversion
    THEN Append(r.inversion_periods, <<r.start_date, index[Len(index)]>>)
    ELSE r.inversion_periods

\* Lines 375-394: inversion_periods of a frame that has the 2s10s column.
InversionPeriods(df) ==
    LET spread == df.cell["2s10s_spread"]
        inversions == [i \in 1..Len(spread) |-> IsInverted(spread[i])]
    IN  CloseOpenPeriod(df.index, ScanFrom(df.index, inversions, 1, FALSE, 0, <<>>))

\* ------------------------------------------------------------- generate_summary_report
RECURSIVE SumSeq(_)
SumSeq(s) == IF s = <<>> THEN 0 ELSE s[1] + SumSeq(Tail(s))

SetMax(S) == CHOOSE x \in S : \A y \in S : y <= x
SetMin(S) == CHOOSE x \in S : \A y \in S : x <= y

\* pandas reductions skip NaN.
Valid(s) == SelectSeq(s, LAMBDA v : v # NaN)

\* Series.mean(): the exact fraction num / den, NaN for no values.
Mean(s) ==
    LET x == Valid(s)
    IN  IF Len(x) = 0 THEN [nan |-> TRUE, num |-> 0, den |-> 1]
        ELSE [nan |-> FALSE, num |-> SumSeq(x), den |-> Len(x)]

\* The delta degrees of freedom of Series.std(): pandas' default.
ddof == 1

\* Series.std(): the square root of sum((x - mean)^2) / (n - ddof), NaN when
\* n <= ddof.  The model keeps the variance under the root, as the exact
\* fraction num / den with
\*     num = n * sum(x^2) - sum(x)^2 = n * sum((x - mean)^2),  den = n * (n - ddof);
\* the standard deviation is 0 exactly when num is 0.
Std(s) ==
    LET x == Valid(s)
        n == Len(x)
    IN  IF n <= ddof THEN [nan |-> TRUE, num |-> 0, den |-> 1]
        ELSE [nan |-> FALSE,
              num |-> n * SumSeq([i \in 1..n |-> x[i] * x[i]]) - SumSeq(x) * SumSeq(x),
              den |-> n * (n - ddof)]

\* Lines 444-458: the spread section of the report.
SpreadAnalysis(df) ==
    LET s == df.cell["2s10s_spread"]
    IN  [current_spread |-> s[Len(s)],
         max_spread |-> SetMax(Range(Valid(s))),
         min_spread |-> SetMin(Range(Valid(s))),
         avg_spread |-> Mean(s),
         spread_std |-> Std(s)]

\* Lines 435-441: the last value of each yield column the frame has.
CurrentYields(df) ==
    [c \in {l \in {"2Y_estimated", "5Y", "10Y", "30Y"} : HasColumn(df, l)} |->
        df.cell[c][Len(df.index)]]

\* ------------------------------------------------------------- the analyzer
\* Lines 26-28.
Init ==
    /\ data = None
    /\ fed_funds_rate = None
    /\ successful_fetches = <<>>
    /\ processed_data = <<>>
    /\ source = "none"
    /\ op = "__init__"
    /\ ret = "None"
    /\ err = "none"
    /\ out = [msg |-> ""]

\* A threshold of one series instead of two.
AtLeastOneSeries(series) == Cardinality(DOMAIN series) >= 1

\* Line 85: len(treasury_data) >= 2.
EnoughSeries(series) == Cardinality(DOMAIN series) >= 2

\* The series the download loop of lines 59-80 keeps: maturity m's series
\* when the provider returned rates for at least one day.  avail[m] is the
\* set of days it returned for m; no day covers an empty frame, a frame
\* without 'Close' and a download that raised, which the loop all skips.
Fetched(avail) ==
    [m \in {k \in Range(Maturities) : avail[k] # {}} |->
        [t \in avail[m] |-> Market(m, t)]]

\* fetch_treasury_data, lines 30-202, with create_sample_data, lines 204-257,
\* where it calls it.  raises says that a library call of the try block of
\* lines 86-186 raised, which the except clause of line 188 catches.  The
\* model runs it on a fresh analyzer only: it replaces self.data wholesale.
FetchTreasuryData ==
    /\ data = None
    /\ \E avail \in [Range(Maturities) -> SUBSET Dates] :
         LET series == Fetched(avail)
             enough == EnoughSeries(series)
         IN  \E raises \in (IF enough THEN BOOLEAN ELSE {FALSE}) :
               /\ successful_fetches' = SelectSeq(Maturities, LAMBDA m : m \in DOMAIN series)
               /\ IF enough /\ ~raises
                  THEN LET df == ProcessFetched(series)
                       IN  /\ data' = df
                           /\ processed_data' = series
                           /\ source' = "fetched"
                           /\ ret' = IF ~IsEmpty(df) THEN "True" ELSE "False"
                           /\ out' = IF ~IsEmpty(df)
                                     THEN [msg |-> "Final data shape"]
                                     ELSE [msg |-> "Data is empty after processing"]
                  ELSE /\ data' = SampleFrame
                       /\ processed_data' = <<>>
                       /\ source' = "sample"
                       /\ ret' = "True"
                       /\ out' = [msg |-> "Note: This is simulated data for learning purposes"]
    /\ op' = "fetch_treasury_data"
    /\ err' = "none"
    /\ UNCHANGED fed_funds_rate

\* calculate_spreads, lines 283-303.
CalculateSpreads ==
    /\ IF data = None
       THEN /\ out' = [msg |-> "No data available. Fetch data first!"]
            /\ UNCHANGED data
       ELSE /\ data' = WithSpreads(data)
            /\ out' = [msg |-> "Spreads calculated successfully!"]
    /\ op' = "calculate_spreads"
    /\ ret' = "None"
    /\ err' = "none"
    /\ UNCHANGED <<fed_funds_rate, successful_fetches, processed_data, source>>

\* analyze_inversions, lines 367-418.  self.data.columns of line 371 raises
\* AttributeError when self.data is None; iloc[-1] of line 412 raises
\* IndexError when the frame has no rows, after the list was printed.
AnalyzeInversions ==
    /\ IF data = None
       THEN /\ err' = "AttributeError"
            /\ out' = [msg |-> ""]
       ELSE IF ~HasColumn(data, "2s10s_spread")
            THEN /\ err' = "none"
                 /\ out' = [msg |-> "2s10s spread not calculated!"]
            ELSE LET inversion_periods == InversionPeriods(data)
                     spread == data.cell["2s10s_spread"]
                 IN  IF Len(spread) = 0
                     THEN /\ err' = "IndexError"
                          /\ out' = [msg |-> "YIELD CURVE INVERSION ANALYSIS",
                                     inversion_periods |-> inversion_periods]
                     ELSE /\ err' = "none"
                          /\ out' = [msg |-> "YIELD CURVE INVERSION ANALYSIS",
                                     inversion_periods |-> inversion_periods,
                                     current_spread |-> spread[Len(spread)],
                                     currently_inverted |->
                                         IsInverted(spread[Len(spread)])]
    /\ op' = "analyze_inversions"
    /\ ret' = "None"
    /\ UNCHANGED <<data, fed_funds_rate, successful_fetches, processed_data, source>>

\* generate_summary_report, lines 420-458.  On a frame with no rows
\* index.min() is NaT, whose strftime raises ValueError at line 432.
GenerateSummaryReport ==
    /\ IF data = None
       THEN /\ err' = "none"
            /\ out' = [msg |-> "No data available!"]
       ELSE IF Len(data.index) = 0
            THEN /\ err' = "ValueError"
                 /\ out' = [msg |-> "YIELD CURVE ANALYSIS SUMMARY REPORT"]
            ELSE /\ err' = "none"
                 /\ out' = [msg |-> "YIELD CURVE ANALYSIS SUMMARY REPORT",
                            period |-> <<SetMin(Range(data.index)),
                                         SetMax(Range(data.index))>>,
                            observations |-> Len(data.index),
                            yields |-> CurrentYields(data),
                            spread |-> IF HasColumn(data, "2s10s_spread")
                                       THEN SpreadAnalysis(data)
                                       ELSE None]
    /\ op' = "generate_summary_report"
    /\ ret' = "None"
    /\ UNCHANGED <<data, fed_funds_rate, successful_fetches, processed_data, source>>

Next ==
    \/ FetchTreasuryData
    \/ CalculateSpreads
    \/ AnalyzeInversions
    \/ GenerateSummaryReport

Spec == Init /\ [][Next]_vars

\* ------------------------------------------------------------- the stages on a given series
\* The scan and the statistics are functions of the 2s10s column alone.
\* SeriesSpec hands them a frame that holds any spread series of up to
\* MaxLen observations, the empty one included, on irregularly spaced days.
DayOf(i) == (i * (i + 1)) \div 2

SpreadValues == {10 * v : v \in (0 - MaxAbsSpread)..MaxAbsSpread}

SeriesFrame(values) ==
    [kind |-> "DataFrame",
     index |-> [i \in 1..Len(values) |-> DayOf(i)],
     columns |-> <<"2s10s_spread">>,
     cell |-> [c \in {"2s10s_spread"} |-> values]]

SeriesInit ==
    /\ \E n \in 0..MaxLen : \E values \in [1..n -> SpreadValues] :
         data = SeriesFrame(values)
    /\ fed_funds_rate = None
    /\ successful_fetches = <<>>
    /\ processed_data = <<>>
    /\ source = "given"
    /\ op = "__init__"
    /\ ret = "None"
    /\ err = "none"
    /\ out = [msg |-> ""]

SeriesNext ==
    \/ AnalyzeInversions
    \/ GenerateSummaryReport

SeriesSpec == SeriesInit /\ [][SeriesNext]_vars

\* ------------------------------------------------------------- properties
Spread == data.cell["2s10s_spread"]

Analyzed == op = "analyze_inversions" /\ data # None /\ HasColumn(data, "2s10s_spread")

Summarized ==
    /\ op = "generate_summary_report"
    /\ data # None
    /\ HasColumn(data, "2s10s_spread")

Negative(v) == v # NaN /\ v < 0

\* The intervals the maximal runs of negative values of a series define: one
\* per run, in order, from the run's first timestamp to the timestamp of the
\* first non-negative value after it, or to the last timestamp.
RunIntervals(index, spread) ==
    LET n == Len(spread)
        starts == {i \in 1..n : Negative(spread[i]) /\ (i = 1 \/ ~Negative(spread[i - 1]))}
        EndOf(i) == LET after == {j \in (i + 1)..n : ~Negative(spread[j])}
                    IN  IF after = {} THEN n ELSE SetMin(after)
        ord == SortedSeq(starts)
    IN  [k \in 1..Len(ord) |-> <<index[ord[k]], index[EndOf(ord[k])]>>]

\* C1: the inversion scan emits, in order, exactly one interval per maximal
\* run of values < 0 (0 ends a run): from the timestamp of the run's first
\* negative value to the timestamp of the first non-negative value after it,
\* or to the last timestamp when the run reaches the end; a series without a
\* negative value yields no interval.
C1_ScanEmitsMaximalRuns ==
    Analyzed => out.inversion_periods = RunIntervals(data.index, Spread)

\* A scan of a series with a run closed by a 0, a later run still open at
\* the end, and hence two intervals.
C1_Witness ==
    /\ Analyzed
    /\ Len(Spread) = 4
    /\ Spread[1] < 0 /\ Spread[2] = 0 /\ Spread[3] > 0 /\ Spread[4] < 0
    /\ out.inversion_periods = <<<<DayOf(1), DayOf(2)>>, <<DayOf(4), DayOf(4)>>>>

\* C2: the interval emitted for a run still negative at the last timestamp
\* differs, as a record, from the interval emitted for a run that starts at
\* the same timestamp and is closed by a non-negative value at that last
\* timestamp.
C2_OpenIntervalDistinguishable ==
    (Analyzed /\ Len(Spread) >= 2 /\ Negative(Spread[Len(Spread)])
              /\ Negative(Spread[Len(Spread) - 1]))
    => \A w \in {v \in SpreadValues : v >= 0} :
         LET closed == InversionPeriods(SeriesFrame([Spread EXCEPT ![Len(Spread)] = w]))
             open == out.inversion_periods
         IN  open[Len(open)] # closed[Len(closed)]

\* The population variance of a series, as the fraction num / den.
PopulationVariance(s) ==
    [num |-> Len(s) * SumSeq([i \in 1..Len(s) |-> s[i] * s[i]]) - SumSeq(s) * SumSeq(s),
     den |-> Len(s) * Len(s)]

\* C5: the reported standard deviation is the population one (divide by N),
\* so a constant series of n >= 1 values C has mean C and standard
\* deviation 0.
C5_PopulationStd ==
    (Summarized /\ err = "none")
    => LET sd == out.spread.spread_std
           avg == out.spread.avg_spread
           pop == PopulationVariance(Spread)
       IN  /\ ~sd.nan
           /\ sd.num * pop.den = pop.num * sd.den
           /\ (\A i \in 1..Len(Spread) : Spread[i] = Spread[1])
                => /\ ~avg.nan /\ avg.num = Spread[1] * avg.den
                   /\ sd.num = 0

Processed == source = "fetched"

Got(m) == m \in DOMAIN processed_data

Rows == 1..Len(data.index)

\* C3: the 2Y estimate follows the first applicable rule, whatever else was
\* fetched: proxy + 0.7 * (fiveYear - proxy) when the proxy and the 5Y series
\* are both present, the proxy when only the proxy is, fiveYear - 0.5 when
\* only the 5Y series is.
C3_EstimatePriorityChain ==
    Processed =>
      /\ (Got("2Y") /\ Got("5Y")) =>
           /\ HasColumn(data, "2Y_estimated")
           /\ \A i \in Rows :
                10 * data.cell["2Y_estimated"][i]
                  = 10 * data.cell["2Y"][i] + 7 * (data.cell["5Y"][i] - data.cell["2Y"][i])
      /\ (Got("2Y") /\ ~Got("5Y")) =>
           /\ HasColumn(data, "2Y_estimated")
           /\ data.cell["2Y_estimated"] = data.cell["2Y"]
      /\ (~Got("2Y") /\ Got("5Y")) =>
           /\ HasColumn(data, "2Y_estimated")
           /\ \A i \in Rows : data.cell["2Y_estimated"][i] = data.cell["5Y"][i] - 50

\* C4: with at least two series fetched and neither the proxy nor the 5Y
\* series among them, fetch_treasury_data fails with NoMaturityDataError
\* instead of returning success, and no later stage completes.
C4_NoMaturityDataError ==
    (Processed /\ ~Got("2Y") /\ ~Got("5Y")) =>
      /\ op = "fetch_treasury_data" => (ret # "True" /\ err = "NoMaturityDataError")
      /\ op \in {"calculate_spreads", "analyze_inversions", "generate_summary_report"}
           => err # "none"

Fetch == op = "fetch_treasury_data"

\* C6 as stated: with fewer than 2 series fetched, fetch_treasury_data fails
\* with InsufficientSeriesError, does not return success and leaves no
\* populated table.
C6_InsufficientSeriesError ==
    (Fetch /\ Len(successful_fetches) < 2) =>
      /\ err = "InsufficientSeriesError"
      /\ ret # "True"
      /\ data = None

\* C6, amended: with fewer than 2 series fetched, fetch_treasury_data raises
\* nothing: it returns True and leaves the table of create_sample_data, with
\* a value in every cell of the columns 2Y_estimated, 5Y, 10Y and 30Y, as
\* self.data; and a table built from fetched series has at least 2 of them.
C6_InsufficientSeriesFallsBack ==
    /\ (Fetch /\ Len(successful_fetches) < 2) =>
         /\ err = "none"
         /\ ret = "True"
         /\ source = "sample"
         /\ data # None
         /\ data.columns = <<"2Y_estimated", "5Y", "10Y", "30Y">>
         /\ Len(data.index) > 0
         /\ \A c \in Range(data.columns) : \A i \in Rows : data.cell[c][i] # NaN
    /\ Processed => Len(successful_fetches) >= 2

\* A fetch that got the 10Y series alone and fell back to the sample table.
C6_Witness ==
    /\ Fetch
    /\ successful_fetches = <<"10Y">>
    /\ source = "sample"
    /\ ret = "True"
    /\ data = SampleFrame

\* What a later stage reads of the analyzer besides the rates themselves: which
\* fields are set and the column labels (every stage looks columns up by label).
Marking(frame, fed) ==
    [data_is_none |-> frame = None,
     fed_funds_rate |-> fed,
     labels |-> IF frame = None THEN {} ELSE Range(frame.columns)]

\* C7: a state reached through create_sample_data is marked as synthetic: by
\* its stored fields and column labels it differs from every state reached by
\* processing fetched series.
C7_SyntheticIsMarked ==
    (Fetch /\ source = "sample") =>
      \A avail \in [Range(Maturities) -> SUBSET Dates] :
        EnoughSeries(Fetched(avail)) =>
          Marking(ProcessFetched(Fetched(avail)), None) # Marking(data, fed_funds_rate)

\* The known observation of series s that fills timestamp t: the one at t,
\* else the nearest earlier one, else the first later one.
FilledFrom(s, t) ==
    IF t \in DOMAIN s THEN s[t]
    ELSE LET before == {u \in DOMAIN s : u < t}
             after == {u \in DOMAIN s : u > t}
         IN  IF before # {} THEN s[SetMax(before)] ELSE s[SetMin(after)]

\* C9: after alignment the rows are the sorted union of the input timestamps;
\* no cell of a fetched column is unset, each holding its observation, else
\* the nearest earlier one, else the first later one; no row has every
\* column unset; dropping all-unset rows before the fill gives the table
\* that filling first and dropping afterwards gives.
C9_AlignedAndFilled ==
    (Processed /\ Fetch) =>
      LET raw == DataFrameOf(processed_data)
          late == DropNaAll(FillNa(raw))
      IN  /\ data.index = SortedSeq(UNION {DOMAIN processed_data[m] : m \in DOMAIN processed_data})
          /\ \A m \in DOMAIN processed_data : \A i \in Rows :
               /\ data.cell[m][i] # NaN
               /\ data.cell[m][i] = FilledFrom(processed_data[m], data.index[i])
          /\ \A c \in Range(data.columns) : \A i \in Rows : data.cell[c][i] # NaN
          /\ \A i \in Rows : \E c \in Range(data.columns) : data.cell[c][i] # NaN
          /\ data.index = late.index
          /\ \A m \in DOMAIN processed_data : data.cell[m] = late.cell[m]

\* A table of three rows in which one column was known at the middle row
\* only, so that it was filled backward at the first row and forward at the
\* last, and another column was known at the first and last rows only.
C9_Witness ==
    /\ Processed /\ Fetch
    /\ Len(data.index) = 3
    /\ \E m \in DOMAIN processed_data : DOMAIN processed_data[m] = {2}
    /\ \E m \in DOMAIN processed_data :
         /\ DOMAIN processed_data[m] = {1, 3}
         /\ processed_data[m][1] # processed_data[m][3]
         /\ data.cell[m][2] = processed_data[m][1]

HasSpreads == data # None /\ HasColumn(data, "2s10s_spread") /\ HasColumn(data, "5s30s_spread")

\* C10 as stated: each spread has a row exactly at the timestamps present in
\* both of its inputs, none at a timestamp missing from either, and its value
\* there is long minus short.
C10_SpreadOnlyWhereBothObserved ==
    (Processed /\ HasSpreads) =>
      /\ \A i \in Rows :
           /\ data.index[i] \in DOMAIN processed_data["30Y"] \cap DOMAIN processed_data["5Y"]
           /\ data.index[i] \in DOMAIN processed_data["10Y"]
      /\ \A i \in Rows :
           data.cell["5s30s_spread"][i]
             = processed_data["30Y"][data.index[i]] - processed_data["5Y"][data.index[i]]

\* C10, amended: each spread has a row at every timestamp of the aligned
\* table, the union of all inputs' timestamps; its value is long minus short
\* of the table's filled columns, which at a timestamp present in both inputs
\* is long observation minus short observation and at a timestamp missing
\* from an input uses that input's filled value: no timestamp is skipped.
C10_SpreadOfFilledColumns ==
    /\ HasSpreads =>
         /\ Len(data.cell["2s10s_spread"]) = Len(data.index)
         /\ Len(data.cell["5s30s_spread"]) = Len(data.index)
         /\ \A i \in Rows :
              /\ data.cell["2s10s_spread"][i] # NaN
              /\ data.cell["5s30s_spread"][i] # NaN
              /\ data.cell["2s10s_spread"][i]
                   = data.cell["10Y"][i] - data.cell["2Y_estimated"][i]
              /\ data.cell["5s30s_spread"][i] = data.cell["30Y"][i] - data.cell["5Y"][i]
    /\ (Processed /\ HasSpreads) =>
         /\ Range(data.index) = UNION {DOMAIN processed_data[m] : m \in DOMAIN processed_data}
         /\ \A i \in Rows :
              /\ data.cell["5s30s_spread"][i]
                   = FilledFrom(processed_data["30Y"], data.index[i])
                     - FilledFrom(processed_data["5Y"], data.index[i])
              /\ data.cell["2s10s_spread"][i]
                   = FilledFrom(processed_data["10Y"], data.index[i])
                     - data.cell["2Y_estimated"][i]

\* Spreads on a table where the 30Y series had no observation at the first
\* timestamp: the 5s30s spread has a row there, from the backward-filled 30Y.
C10_Witness ==
    /\ Processed /\ HasSpreads
    /\ op = "calculate_spreads"
    /\ Len(data.index) = 3
    /\ DOMAIN processed_data["30Y"] = {2, 3}
    /\ DOMAIN processed_data["5Y"] = {1, 2, 3}
    /\ processed_data["30Y"][2] # processed_data["30Y"][3]
    /\ data.cell["5s30s_spread"][1] = processed_data["30Y"][2] - processed_data["5Y"][1]

\* A call of calculate_spreads on an analyzer that has a table.
SpreadsStep == op' = "calculate_spreads" /\ data # None

SpreadLabels == {"2s10s_spread", "5s30s_spread"}

C12_MissingPrerequisiteReported ==
    /\ (data = None /\ op \in {"calculate_spreads", "analyze_inversions",
                               "generate_summary_report"})
         => /\ err = "none"
            /\ out.msg \in {"No data available. Fetch data first!", "No data available!"}
    /\ (data # None /\ ~HasColumn(data, "2s10s_spread") /\ op = "analyze_inversions")
         => /\ err = "none"
            /\ out = [msg |-> "2s10s spread not calculated!"]
    /\ (op = "analyze_inversions" /\ "inversion_periods" \in DOMAIN out)
         => (data # None /\ HasColumn(data, "2s10s_spread"))

====
